---- MODULE Spec2Model ----
(***************************************************************************)
(* Seltra AI worker: the response-extraction and policy pipeline of the    *)
(* /generate and /chat handlers.                                           *)
(*                                                                         *)
(* Text is modelled character by character: a string is a sequence of      *)
(* one-character strings, so trimming, whitespace collapsing and every     *)
(* regular expression of the handlers are computed on characters, the way  *)
(* the JavaScript runtime computes them.  The grave accent cannot be       *)
(* written inside a TLA+ string; the character is written BT.              *)
(***************************************************************************)
EXTENDS Integers, Sequences, FiniteSets, TLC

VARIABLES path, build, content, pc, finalCode, step, extracted, blockContent,
          response,
          normIn, normOut, request, calls, searchContext, pending, other,
          cors

vars ==
  <<path, build, content, pc, finalCode, step, extracted, blockContent,
    response, normIn,
    normOut, request, calls, searchContext, pending, other, cors>>

\* The variables of the request pipeline: the request body, the network
\* calls issued so far, the handler's searchContext, and the /chat result
\* held while the title is awaited.
requestVars == <<request, calls, searchContext, pending>>

\* What lives outside the running handler: the locals of a second request
\* that is suspended at an await, and the module-level CORS_HEADERS object.
runtimeVars == <<other, cors>>

-----------------------------------------------------------------------------
(* Characters *)

BT == "GRAVE"

\* U+000B, line tabulation (\v).
VT == ""

\* U+00A0, no-break space.
NBSP == " "

\* U+1680, ogham space mark.
OGHAM == " "

\* U+FEFF, zero width no-break space.
BOM == "﻿"

\* The other characters of \s, each written as its code point: the spaces
\* U+2000..U+200A, U+202F, U+205F, U+3000 and the line terminators U+2028,
\* U+2029.
UnicodeSpaces ==
  {"U+2000", "U+2001", "U+2002", "U+2003", "U+2004", "U+2005", "U+2006",
   "U+2007", "U+2008", "U+2009", "U+200A", "U+2028", "U+2029", "U+202F",
   "U+205F", "U+3000"}

\* What \s matches and what trim() removes: the WhiteSpace and
\* LineTerminator productions of ECMAScript.
WhiteSpace ==
  {" ", "\t", "\n", "\r", "\f", VT, NBSP, OGHAM, BOM} \cup UnicodeSpaces

LineBreaks == {"\n", "\r"}

IsWS(c) == c \in WhiteSpace

LowerMap ==
  ("A" :> "a") @@ ("B" :> "b") @@ ("C" :> "c") @@ ("D" :> "d") @@ ("E" :> "e") @@
  ("F" :> "f") @@ ("G" :> "g") @@ ("H" :> "h") @@ ("I" :> "i") @@ ("J" :> "j") @@
  ("K" :> "k") @@ ("L" :> "l") @@ ("M" :> "m") @@ ("N" :> "n") @@ ("O" :> "o") @@
  ("P" :> "p") @@ ("Q" :> "q") @@ ("R" :> "r") @@ ("S" :> "s") @@ ("T" :> "t") @@
  ("U" :> "u") @@ ("V" :> "v") @@ ("W" :> "w") @@ ("X" :> "x") @@ ("Y" :> "y") @@
  ("Z" :> "z")

UpperCase == DOMAIN LowerMap

\* Case folding of the regular expressions' i flag.
Lower(c) == IF c \in UpperCase THEN LowerMap[c] ELSE c

-----------------------------------------------------------------------------
(* String primitives *)

\* The literal lit stands in s at position i (String.prototype.startsWith
\* when i = 1).
LitAt(s, i, lit) ==
  /\ i >= 1
  /\ i + Len(lit) - 1 <= Len(s)
  /\ \A k \in 1..Len(lit) : s[i + k - 1] = lit[k]

\* The same under the i flag.
LitAtCI(s, i, lit) ==
  /\ i >= 1
  /\ i + Len(lit) - 1 <= Len(s)
  /\ \A k \in 1..Len(lit) : Lower(s[i + k - 1]) = Lower(lit[k])

startsWith(s, lit) == LitAt(s, 1, lit)

\* First position p >= from where lit stands in s, 0 when there is none.
RECURSIVE IndexFrom(_, _, _)
IndexFrom(s, lit, from) ==
  IF from + Len(lit) - 1 > Len(s) THEN 0
  ELSE IF LitAt(s, from, lit) THEN from
  ELSE IndexFrom(s, lit, from + 1)

RECURSIVE IndexFromCI(_, _, _)
IndexFromCI(s, lit, from) ==
  IF from + Len(lit) - 1 > Len(s) THEN 0
  ELSE IF LitAtCI(s, from, lit) THEN from
  ELSE IndexFromCI(s, lit, from + 1)

\* String.prototype.includes
includes(s, lit) == \E i \in 1..Len(s) : LitAt(s, i, lit)

\* A greedy \s* from position i: the first position that holds no whitespace.
RECURSIVE SkipWS(_, _)
SkipWS(s, i) ==
  IF i <= Len(s) /\ IsWS(s[i]) THEN SkipWS(s, i + 1) ELSE i

\* The last position at or before i that holds no whitespace (0 when none).
RECURSIVE SkipWSBack(_, _)
SkipWSBack(s, i) ==
  IF i >= 1 /\ IsWS(s[i]) THEN SkipWSBack(s, i - 1) ELSE i

\* String.prototype.trim
trim(s) ==
  LET a == SkipWS(s, 1)
      b == SkipWSBack(s, Len(s))
  IN  IF a > b THEN <<>> ELSE SubSeq(s, a, b)

\* .replace(/\n/g, ' ')
ReplaceNewlines(s) == [i \in 1..Len(s) |-> IF s[i] = "\n" THEN " " ELSE s[i]]

\* .replace(/\s+/g, ' ')
RECURSIVE CollapseFrom(_, _)
CollapseFrom(s, i) ==
  IF i > Len(s) THEN <<>>
  ELSE IF IsWS(s[i]) THEN <<" ">> \o CollapseFrom(s, SkipWS(s, i))
  ELSE <<s[i]>> \o CollapseFrom(s, i + 1)

CollapseWS(s) == CollapseFrom(s, 1)

\* A clean-up that forgets the final trim().
Normalize_NoTrim(s) == CollapseWS(ReplaceNewlines(s))

\* .replace(/\n/g, ' ').replace(/\s+/g, ' ').trim()
Normalize(s) == trim(CollapseWS(ReplaceNewlines(s)))

-----------------------------------------------------------------------------
(* Literals of the handlers *)

JSPREFIX == <<"j", "a", "v", "a", "s", "c", "r", "i", "p", "t", ":">>

SENTINEL ==
  <<"S", "I", "T", "E", "_", "S", "P", "E", "C", "I", "F", "I", "C", "_",
    "R", "E", "Q", "U", "E", "S", "T">>

FENCE == <<BT, BT, BT>>

FUNCTION_HEAD == <<"(", "f", "u", "n", "c", "t", "i", "o", "n", "(", ")">>

ARROW_HEAD == <<"(", "(", ")">>

ARROW == <<"=", ">">>

VOID == <<"v", "o", "i", "d">>

CLOSE_BODY == <<"}", ")">>

CALL == <<"(", ")">>

WRAP_OPEN ==
  <<"j", "a", "v", "a", "s", "c", "r", "i", "p", "t", ":", "(", "f", "u", "n",
    "c", "t", "i", "o", "n", "(", ")", "{">>

WRAP_CLOSE == <<"}", ")", "(", ")", ";">>

\* The alternatives of (?:javascript|js)?, in the order the engine tries them.
FenceTags ==
  << <<"j", "a", "v", "a", "s", "c", "r", "i", "p", "t">>, <<"j", "s">>, <<>> >>

\* XMLHttpRequest and $.ajax of the safety check, case-folded.
NetworkCalls ==
  { <<"x", "m", "l", "h", "t", "t", "p", "r", "e", "q", "u", "e", "s", "t">>,
    <<"$", ".", "a", "j", "a", "x">> }

FETCH == <<"f", "e", "t", "c", "h">>

SensitiveKeywords ==
  { <<"a", "p", "i">>, <<"a", "u", "t", "h">>, <<"t", "o", "k", "e", "n">>,
    <<"s", "e", "s", "s", "i", "o", "n">>,
    <<"i", "d", "e", "n", "t", "i", "f", "y">>,
    <<"i", "n", "t", "e", "r", "n", "a", "l">>,
    <<"p", "r", "i", "v", "a", "t", "e">> }

MSG_SITE_SPECIFIC ==
  "This request requires knowledge of a specific website's internal structure, APIs, or authentication systems that aren't publicly accessible. Bookmarklets can only interact with visible page elements and public web standards.\n\nWant this bookmarklet? Submit a feature request and our team will research and build it if possible!"

MSG_FILTERED ==
  "This bookmarklet would need to access internal APIs or authentication systems. Bookmarklets can only work with visible page content and public web standards.\n\nNeed this functionality? Contact seltrahelpcenter@gmail.com and we'll see if it's possible!"

-----------------------------------------------------------------------------
(* Regular expressions.  XEnd(s, i) is the position just after the match   *)
(* of X that starts at position i of s, 0 when X does not match there.     *)

Min(S) == CHOOSE x \in S : \A y \in S : x <= y

NoMatch == [matched |-> FALSE, whole |-> <<>>, group |-> <<>>]

\* The end of the lazy [\s\S]*?\}\)\s*\(\);? that starts at position from.
RECURSIVE IifeTailEnd(_, _)
IifeTailEnd(s, from) ==
  IF from > Len(s) THEN 0
  ELSE IF LitAt(s, from, CLOSE_BODY) /\ LitAt(s, SkipWS(s, from + 2), CALL)
       THEN LET e == SkipWS(s, from + 2) + 2
            IN  IF e <= Len(s) /\ s[e] = ";" THEN e + 1 ELSE e
  ELSE IifeTailEnd(s, from + 1)

\* /javascript:\s*\(function\(\)\s*\{[\s\S]*?\}\)\s*\(\);?/i
FunctionIifeEnd(s, i) ==
  IF ~LitAtCI(s, i, JSPREFIX) THEN 0
  ELSE LET a == SkipWS(s, i + Len(JSPREFIX))
       IN  IF ~LitAtCI(s, a, FUNCTION_HEAD) THEN 0
           ELSE LET b == SkipWS(s, a + Len(FUNCTION_HEAD))
                IN  IF b <= Len(s) /\ s[b] = "{"
                    THEN IifeTailEnd(s, b + 1) ELSE 0

\* /javascript:\s*\(\(\)\s*=>\s*\{[\s\S]*?\}\)\s*\(\);?/i
ArrowIifeEnd(s, i) ==
  IF ~LitAtCI(s, i, JSPREFIX) THEN 0
  ELSE LET a == SkipWS(s, i + Len(JSPREFIX))
       IN  IF ~LitAt(s, a, ARROW_HEAD) THEN 0
           ELSE LET b == SkipWS(s, a + Len(ARROW_HEAD))
                IN  IF ~LitAt(s, b, ARROW) THEN 0
                    ELSE LET c == SkipWS(s, b + Len(ARROW))
                         IN  IF c <= Len(s) /\ s[c] = "{"
                             THEN IifeTailEnd(s, c + 1) ELSE 0

\* /javascript:\s*void\s*\([\s\S]*?\);?/i
VoidCallEnd(s, i) ==
  IF ~LitAtCI(s, i, JSPREFIX) THEN 0
  ELSE LET a == SkipWS(s, i + Len(JSPREFIX))
       IN  IF ~LitAtCI(s, a, VOID) THEN 0
           ELSE LET b == SkipWS(s, a + Len(VOID))
                IN  IF ~(b <= Len(s) /\ s[b] = "(") THEN 0
                    ELSE LET c == IndexFrom(s, <<")">>, b + 1)
                         IN  IF c = 0 THEN 0
                             ELSE IF c + 1 <= Len(s) /\ s[c + 1] = ";"
                             THEN c + 2 ELSE c + 1

\* The end of a greedy run of [^\s`"'\n] from position i.
RECURSIVE TokenRunEnd(_, _)
TokenRunEnd(s, i) ==
  IF i <= Len(s) /\ ~IsWS(s[i]) /\ s[i] \notin {BT, "\"", "'"}
  THEN TokenRunEnd(s, i + 1) ELSE i

\* /javascript:[^\s`"'\n]+/i
BareTokenEnd(s, i) ==
  IF ~LitAtCI(s, i, JSPREFIX) THEN 0
  ELSE LET e == TokenRunEnd(s, i + Len(JSPREFIX))
       IN  IF e > i + Len(JSPREFIX) THEN e ELSE 0

\* /q(javascript:[^q]+)q/i for a delimiter q
DelimitedEnd(s, i, q) ==
  IF ~(i <= Len(s) /\ s[i] = q /\ LitAtCI(s, i + 1, JSPREFIX)) THEN 0
  ELSE LET from == i + 1 + Len(JSPREFIX)
           c    == IndexFrom(s, <<q>>, from)
       IN  IF c = 0 \/ c = from THEN 0 ELSE c + 1

BacktickEnd(s, i) == DelimitedEnd(s, i, BT)

DoubleQuoteEnd(s, i) == DelimitedEnd(s, i, "\"")

SingleQuoteEnd(s, i) == DelimitedEnd(s, i, "'")

\* The end of pattern k of the patterns array of /generate at position i.
PatternEnd(k, s, i) ==
  CASE k = 1 -> FunctionIifeEnd(s, i)
    [] k = 2 -> ArrowIifeEnd(s, i)
    [] k = 3 -> VoidCallEnd(s, i)
    [] k = 4 -> BareTokenEnd(s, i)
    [] k = 5 -> BacktickEnd(s, i)
    [] k = 6 -> DoubleQuoteEnd(s, i)
    [] k = 7 -> SingleQuoteEnd(s, i)

\* patterns.length
NumPatterns == 7

\* code.match(patterns[k]): the leftmost match; its capture group is the
\* text between the delimiters (patterns 5 to 7 only).
PatternMatch(k, s) ==
  LET hits == {i \in 1..Len(s) : PatternEnd(k, s, i) # 0}
      Span(i, e) ==
        [matched |-> TRUE,
         whole   |-> SubSeq(s, i, e - 1),
         group   |-> IF k >= 5 THEN SubSeq(s, i + 1, e - 2) ELSE <<>>]
      MatchAt(i) == Span(i, PatternEnd(k, s, i))
  IN  IF hits = {} THEN NoMatch ELSE MatchAt(Min(hits))

\* match[1] || match[0]
GroupOrWhole(m) == IF m.group # <<>> THEN m.group ELSE m.whole

\* A loop that tries the patterns from the last one to the first.
RECURSIVE PatternsLoop_Reversed(_, _)
PatternsLoop_Reversed(code, k) ==
  LET Try(match) ==
        IF match.matched THEN GroupOrWhole(match)
        ELSE PatternsLoop_Reversed(code, k + 1)
  IN  IF k > NumPatterns THEN code
      ELSE Try(PatternMatch(NumPatterns + 1 - k, code))

\* for (const pattern of patterns) { ...; break; }: the code after the loop
\* (unchanged when no pattern matches), trying patterns k..7 in order.
RECURSIVE PatternsLoop(_, _)
PatternsLoop(code, k) ==
  LET Try(match) ==
        IF match.matched THEN GroupOrWhole(match) ELSE PatternsLoop(code, k + 1)
  IN  IF k > NumPatterns THEN code ELSE Try(PatternMatch(k, code))

\* The end of the fenced-block regular expression at position i with the tag
\* alternative FenceTags[n]; jsOnly adds the javascript:\s* that the /chat
\* expression requires at the head of the group.
FenceEndWithTag(s, i, n, jsOnly) ==
  IF ~(LitAt(s, i, FENCE) /\ LitAtCI(s, i + Len(FENCE), FenceTags[n])) THEN 0
  ELSE LET a == SkipWS(s, i + Len(FENCE) + Len(FenceTags[n]))
           b == IF jsOnly THEN SkipWS(s, a + Len(JSPREFIX)) ELSE a
           c == IndexFrom(s, FENCE, b)
       IN  IF jsOnly /\ ~LitAtCI(s, a, JSPREFIX) THEN 0
           ELSE IF c = 0 THEN 0 ELSE c + Len(FENCE)

\* The first tag alternative with which the expression matches at i (0: none).
FenceTagChoice(s, i, jsOnly) ==
  LET ok == {n \in 1..Len(FenceTags) : FenceEndWithTag(s, i, n, jsOnly) # 0}
  IN  IF ok = {} THEN 0 ELSE Min(ok)

\* The leftmost match of the fenced-block expression; its capture group
\* starts after the tag and the whitespace that follows it.
FenceMatch(s, jsOnly) ==
  LET hits == {i \in 1..Len(s) :
                 LitAt(s, i, FENCE) /\ FenceTagChoice(s, i, jsOnly) # 0}
      Span(i, a, e) ==
        [matched |-> TRUE,
         whole   |-> SubSeq(s, i, e - 1),
         group   |-> SubSeq(s, a, e - Len(FENCE) - 1)]
      WithTag(i, n) ==
        Span(i, SkipWS(s, i + Len(FENCE) + Len(FenceTags[n])),
             FenceEndWithTag(s, i, n, jsOnly))
      MatchAt(i) == WithTag(i, FenceTagChoice(s, i, jsOnly))
  IN  IF hits = {} THEN NoMatch ELSE MatchAt(Min(hits))

\* reply.match(/```(?:javascript|js)?\s*(javascript:\s*[\s\S]*?)```/i)
codeMatch(reply) == FenceMatch(reply, TRUE)

\* code.match(/```(?:javascript|js)?\s*([\s\S]*?)```/i)
codeBlockMatch(code) == FenceMatch(code, FALSE)

\* The string with every letter case-folded: under the i flag a literal of
\* lower-case letters matches in s exactly where it stands in LowerSeq(s).
LowerSeq(s) == [i \in 1..Len(s) |-> Lower(s[i])]

\* /fetch\s*\(|XMLHttpRequest|\$\.ajax/i.test(code)
HasNetworkCall(code) ==
  LET lc == LowerSeq(code)
  IN  \/ \E i \in 1..Len(lc) :
           /\ LitAt(lc, i, FETCH)
           /\ LET a == SkipWS(lc, i + Len(FETCH))
              IN  a <= Len(lc) /\ lc[a] = "("
      \/ \E w \in NetworkCalls : includes(lc, w)

\* /api|auth|token|session|identify|internal|private/i.test(code)
HasSensitiveKeyword(code) ==
  LET lc == LowerSeq(code)
  IN  \E w \in SensitiveKeywords : includes(lc, w)

\* A safety check that joins its two tests with || instead of &&.
AuditFlags_Disjunction(code) == HasNetworkCall(code) \/ HasSensitiveKeyword(code)

\* The condition of the post-generation safety check.
AuditFlags(code) == HasNetworkCall(code) /\ HasSensitiveKeyword(code)

-----------------------------------------------------------------------------
(* /generate, from the parsed completion to the response.  step names the  *)
(* assignment that last set the handler's local code, blockContent is      *)
(* group 1 of the fenced-block match (codeBlockMatch[1], anyCodeMatch[1])  *)
(* and extracted is the local made from it, as it stands when the block is *)
(* left: trimmed, and collapsed on the wrapping branch.                    *)

\* data.choices?.[0]?.message?.content?.trim() || ''
ReplyOf(c) == trim(c)

\* A template that forgets the javascript: prefix.
WrapTemplate_NoPrefix(body) ==
  SubSeq(WRAP_OPEN, Len(JSPREFIX) + 1, Len(WRAP_OPEN)) \o body \o WRAP_CLOSE

\* `javascript:(function(){${extracted}})();`
WrapTemplate(body) == WRAP_OPEN \o body \o WRAP_CLOSE

\* "If still no match, try to build from code block"; before is the step
\* that produced code.
CodeBlockFallback(code, before) ==
  LET Wrap(group, collapsed) ==
        [code |-> WrapTemplate(collapsed), step |-> "wrapped",
         extracted |-> collapsed, blockContent |-> group]
      Build(group, inner) ==
        IF startsWith(inner, JSPREFIX)
        THEN [code |-> inner, step |-> "fenced", extracted |-> inner,
              blockContent |-> group]
        ELSE Wrap(group, CollapseWS(ReplaceNewlines(inner)))
      From(match) ==
        IF ~match.matched
        THEN [code |-> code, step |-> before, extracted |-> <<>>,
              blockContent |-> <<>>]
        ELSE Build(match.group, trim(match.group))
  IN  From(codeBlockMatch(code))

\* "Try to extract javascript: code from the response".
ExtractGenerate(code) ==
  LET Then(found, before) ==
        IF startsWith(found, JSPREFIX)
        THEN [code |-> found, step |-> before, extracted |-> <<>>,
              blockContent |-> <<>>]
        ELSE CodeBlockFallback(found, before)
      Matched == \E k \in 1..NumPatterns : PatternMatch(k, code).matched
      After(found) == Then(found, IF Matched THEN "pattern" ELSE "reply")
  IN  IF startsWith(code, JSPREFIX)
      THEN [code |-> code, step |-> "reply", extracted |-> <<>>,
            blockContent |-> <<>>]
      ELSE After(PatternsLoop(code, 1))

\* A refusal reported the way failures are.
SiteSpecificResponse_AsError(msg) ==
  [endpoint |-> "/generate", status |-> 500, error |-> msg]

SiteSpecificResponse(msg) ==
  [endpoint |-> "/generate", status |-> 200, code |-> <<>>,
   siteSpecific |-> TRUE, message |-> msg]

CodeResponse(code) ==
  [endpoint |-> "/generate", status |-> 200, code |-> code,
   siteSpecific |-> FALSE, message |-> ""]

\* A sentinel check that keeps the equality test only.
SentinelFound_EqualityOnly(reply) == reply = SENTINEL

\* code === 'SITE_SPECIFIC_REQUEST' || code.includes('SITE_SPECIFIC_REQUEST')
SentinelFound(reply) == reply = SENTINEL \/ includes(reply, SENTINEL)

\* A safety check that reports its refusal and still returns the code.
AuditedResponse_KeepsCode(cleaned) ==
  IF AuditFlags(cleaned)
  THEN [SiteSpecificResponse(MSG_FILTERED) EXCEPT !.code = cleaned]
  ELSE CodeResponse(cleaned)

\* The post-generation safety check and the final return.
AuditedResponse(cleaned) ==
  IF AuditFlags(cleaned) THEN SiteSpecificResponse(MSG_FILTERED)
  ELSE CodeResponse(cleaned)

\* The handler from the reply on: its locals when it returns, and the
\* response.
GenerateHandler(c) ==
  LET Return(x, cleaned) ==
        [code |-> cleaned, step |-> x.step, extracted |-> x.extracted,
         blockContent |-> x.blockContent,
         response |-> AuditedResponse(cleaned)]
      CleanUp(x) == Return(x, Normalize(x.code))
      Handle(reply) ==
        IF SentinelFound(reply)
        THEN [code |-> reply, step |-> "sentinel", extracted |-> <<>>,
              blockContent |-> <<>>,
              response |-> SiteSpecificResponse(MSG_SITE_SPECIFIC)]
        ELSE CleanUp(ExtractGenerate(reply))
  IN  Handle(ReplyOf(c))

-----------------------------------------------------------------------------
(* /chat, from the parsed completion to the response *)

\* An extraction whose code is the text after the prefix.
ExtractChat_AfterPrefix(reply) ==
  LET From(match) ==
        IF match.matched
        THEN [hasCode |-> TRUE,
              code |-> Normalize(SubSeq(match.group, Len(JSPREFIX) + 1,
                                        Len(match.group))),
              step |-> "codeMatch", extracted |-> <<>>, blockContent |-> <<>>]
        ELSE [hasCode |-> FALSE, code |-> <<>>, step |-> "reply",
              extracted |-> <<>>, blockContent |-> <<>>]
  IN  From(codeMatch(reply))

\* part_002: only a fenced block whose content starts with javascript:.
ExtractChat(reply) ==
  LET From(match) ==
        IF match.matched
        THEN [hasCode |-> TRUE, code |-> Normalize(match.group),
              step |-> "codeMatch", extracted |-> <<>>, blockContent |-> <<>>]
        ELSE [hasCode |-> FALSE, code |-> <<>>, step |-> "reply",
              extracted |-> <<>>, blockContent |-> <<>>]
  IN  From(codeMatch(reply))

\* part_001: otherwise any fenced block, wrapped unless it starts with
\* javascript:.
ExtractChatWrap(reply) ==
  LET Result(extractedCode, last, code, group) ==
        [hasCode |-> Len(extractedCode) > 0, code |-> extractedCode,
         step |-> last, extracted |-> code, blockContent |-> group]
      Minified(group, code) ==
        IF ~startsWith(code, JSPREFIX)
        THEN Result(WrapTemplate(code), "wrapped", code, group)
        ELSE Result(code, "fenced", code, group)
      FromAny(anyCodeMatch) ==
        IF ~anyCodeMatch.matched THEN Result(<<>>, "reply", <<>>, <<>>)
        ELSE Minified(anyCodeMatch.group, Normalize(trim(anyCodeMatch.group)))
      From(match) ==
        IF match.matched
        THEN Result(Normalize(match.group), "codeMatch", <<>>, <<>>)
        ELSE FromAny(codeBlockMatch(reply))
  IN  From(codeMatch(reply))

\* The handler from the reply on, without a title request.
ChatHandler(c, b) ==
  LET Return(reply, x) ==
        [code |-> x.code, step |-> x.step, extracted |-> x.extracted,
         blockContent |-> x.blockContent,
         response |-> [endpoint |-> "/chat", status |-> 200, reply |-> reply,
                       hasCode |-> x.hasCode, code |-> x.code]]
      Handle(reply) ==
        Return(reply, IF b = "part_001" THEN ExtractChatWrap(reply)
                      ELSE ExtractChat(reply))
  IN  Handle(ReplyOf(c))

-----------------------------------------------------------------------------
(* Provider replies the model explores: message contents built by          *)
(* concatenating at most MaxParts parts.  A part is a piece of prose, a     *)
(* code snippet, or a snippet inside a fenced block.                        *)

MaxParts == 2

PROSE_HI ==
  <<"H", "i">>

STRAY_TOKEN ==
  <<"j", "a", "v", "a", "s", "c", "r", "i", "p", "t", ":", "x", " ">>

INLINE_BACKTICK ==
  <<BT, "j", "a", "v", "a", "s", "c", "r", "i", "p", "t", ":", " ", "f", BT>>

INLINE_DQUOTE ==
  <<"\"", "j", "a", "v", "a", "s", "c", "r", "i", "p", "t", ":", " ", "f",
      "\"">>

INLINE_SQUOTE ==
  <<"'", "j", "a", "v", "a", "s", "c", "r", "i", "p", "t", ":", " ", "f",
      "'">>

SNIP_IIFE ==
  <<"j", "a", "v", "a", "s", "c", "r", "i", "p", "t", ":", "(", "f", "u",
      "n", "c", "t", "i", "o", "n", "(", ")", "{", "a", "}", ")", "(",
      ")", ";">>

SNIP_ALERT_JS ==
  <<"j", "a", "v", "a", "s", "c", "r", "i", "p", "t", ":", "a", "l", "e",
      "r", "t", "(", "'", "h", "i", "'", ")">>

SNIP_ALERT ==
  <<"a", "l", "e", "r", "t", "(", "'", "h", "i", "'", ")">>

SNIP_FETCH_API ==
  <<"f", "e", "t", "c", "h", "(", "'", "/", "a", "p", "i", "/", "s", "e",
      "s", "s", "i", "o", "n", "-", "t", "o", "k", "e", "n", "'", ")">>

SNIP_FETCH ==
  <<"f", "e", "t", "c", "h", " ", "(", "u", ")", "\n", " ", NBSP, ".", "t",
      "h", "e", "n", "(", "f", ")">>

SNIP_TOKEN ==
  <<"t", "o", "k", "e", "n">>

SNIP_VOID_UPPER ==
  <<"J", "a", "v", "a", "S", "c", "r", "i", "p", "t", ":", "v", "o", "i",
      "d", "(", "0", ")", ";">>

SNIP_ARROW ==
  <<"j", "a", "v", "a", "s", "c", "r", "i", "p", "t", ":", "(", "(", ")",
      "=", ">", "{", "a", "\n", " ", " ", "b", "}", ")", "(", ")", ";">>

SNIP_NESTED ==
  <<"j", "a", "v", "a", "s", "c", "r", "i", "p", "t", ":", "(", "f", "u",
      "n", "c", "t", "i", "o", "n", "(", ")", "{", "(", "f", "u", "n",
      "c", "t", "i", "o", "n", "(", ")", "{", "a", "}", ")", "(", ")",
      ";", "b", "}", ")", "(", ")", ";">>

OPEN_JAVASCRIPT ==
  <<BT, BT, BT, "j", "a", "v", "a", "s", "c", "r", "i", "p", "t", "\n">>

CLOSE_FENCE ==
  <<"\n", BT, BT, BT>>

Prose ==
  { PROSE_HI, <<" ">>, <<"\r", "\n">>, SENTINEL, STRAY_TOKEN, FENCE,
    INLINE_BACKTICK, INLINE_DQUOTE, INLINE_SQUOTE }

Snippets ==
  { SNIP_IIFE, SNIP_ALERT_JS, SNIP_ALERT, SNIP_FETCH_API, SNIP_FETCH,
    SNIP_TOKEN, SNIP_VOID_UPPER, SNIP_ARROW, SNIP_NESTED }

\* A tagged and an untagged opening fence.
FenceOpeners == { OPEN_JAVASCRIPT, FENCE }

Fenced(open, snippet) == open \o snippet \o CLOSE_FENCE

Parts ==
  Prose \cup Snippets \cup {Fenced(o, s) : o \in FenceOpeners, s \in Snippets}

RECURSIVE Concats(_)
Concats(n) ==
  IF n = 0 THEN {<<>>}
  ELSE LET shorter == Concats(n - 1)
       IN  shorter \cup {p \o q : p \in shorter, q \in Parts}

Contents == Concats(MaxParts)

\* The handlers modelled: /generate and /chat of part_002, and the /chat of
\* part_001 that also wraps untagged blocks.
Handlers ==
  { <<"/generate", "part_002">>, <<"/chat", "part_002">>, <<"/chat", "part_001">> }

-----------------------------------------------------------------------------
(* The pipeline on one request, from the moment the completion provider's  *)
(* body has been parsed and carries no error.                               *)

NoResponse == [endpoint |-> "none"]

\* searchContext = ''
NoContext == [text |-> "", items |-> <<>>]

\* The request pipeline at rest: the specifications that start from a parsed
\* completion leave it so.
CORS_HEADERS ==
  [origin |-> "*", methods |-> "POST, OPTIONS", headers |-> "Content-Type"]

\* No second request is being handled.
NoOther == [pc |-> "none"]

SingleRequest ==
  /\ other = NoOther
  /\ cors = CORS_HEADERS

NoRequest ==
  /\ request = [body |-> "none"]
  /\ calls = <<>>
  /\ searchContext = NoContext
  /\ pending = NoResponse

Init ==
  /\ \E h \in Handlers : path = h[1] /\ build = h[2]
  /\ content \in Contents
  /\ pc = "received"
  /\ finalCode = <<>>
  /\ step = "none"
  /\ extracted = <<>>
  /\ blockContent = <<>>
  /\ response = NoResponse
  /\ normIn = <<>>
  /\ normOut = <<>>
  /\ NoRequest
  /\ SingleRequest

Generate ==
  /\ pc = "received"
  /\ path = "/generate"
  /\ \E r \in {GenerateHandler(content)} :
       /\ finalCode' = r.code
       /\ step' = r.step
       /\ extracted' = r.extracted
       /\ blockContent' = r.blockContent
       /\ response' = r.response
  /\ pc' = "done"
  /\ UNCHANGED <<path, build, content, normIn, runtimeVars, normOut, requestVars>>

Chat ==
  /\ pc = "received"
  /\ path = "/chat"
  /\ \E r \in {ChatHandler(content, build)} :
       /\ finalCode' = r.code
       /\ step' = r.step
       /\ extracted' = r.extracted
       /\ blockContent' = r.blockContent
       /\ response' = r.response
  /\ pc' = "done"
  /\ UNCHANGED <<path, build, content, normIn, runtimeVars, normOut, requestVars>>

Next == Generate \/ Chat

Spec == Init /\ [][Next]_vars

-----------------------------------------------------------------------------
(* Normalization alone, on every short string over a small alphabet.       *)

MaxNormLen == 4

NormAlphabet == {" ", "\n", "\r", "\t", VT, NBSP, "a", ";"}

RECURSIVE StringsUpTo(_)
StringsUpTo(n) ==
  IF n = 0 THEN {<<>>}
  ELSE LET shorter == StringsUpTo(n - 1)
       IN  shorter \cup {Append(s, c) : s \in shorter, c \in NormAlphabet}

InitNormalize ==
  /\ path = "none"
  /\ build = "none"
  /\ content = <<>>
  /\ finalCode = <<>>
  /\ step = "none"
  /\ extracted = <<>>
  /\ blockContent = <<>>
  /\ response = NoResponse
  /\ pc = "raw"
  /\ normIn \in StringsUpTo(MaxNormLen)
  /\ normOut = <<>>
  /\ NoRequest
  /\ SingleRequest

NormalizeStep ==
  /\ pc = "raw"
  /\ normOut' = Normalize(normIn)
  /\ pc' = "normalized"
  /\ UNCHANGED <<path, build, content, finalCode, step, extracted,
                 blockContent, response,
                 normIn, runtimeVars, requestVars>>

NextNormalize == NormalizeStep

SpecNormalize == InitNormalize /\ [][NextNormalize]_vars

-----------------------------------------------------------------------------
(* The request pipeline: the handlers from the arrival of a POST to the    *)
(* response, one step per await of a network call.  The request body, the  *)
(* outcome of every network call and the provider's reply are inputs.  The *)
(* bookmarklets and websites of a /chat body only add text to the          *)
(* instruction and are left out.                                            *)

\* An optional JSON field: absent, or present with a value.
None == <<>>

Some(v) == <<v>>

TEXT_LOOKUP == <<"L", "o", "o", "k", " ", "u", "p", " ", "x">>

\* String(undefined), what RegExp.prototype.test and a template literal make
\* of an absent prompt.
TEXT_UNDEFINED == <<"u", "n", "d", "e", "f", "i", "n", "e", "d">>

QUERY_PREFIX ==
  <<"j", "a", "v", "a", "s", "c", "r", "i", "p", "t", " ", "b", "o", "o", "k",
    "m", "a", "r", "k", "l", "e", "t", " ">>

\* The alternatives of the needsSearch expression of part_002.
SearchTriggers ==
  { <<"s", "e", "a", "r", "c", "h", " ", "f", "o", "r">>,
    <<"l", "o", "o", "k", " ", "u", "p">>,
    <<"d", "o", "c", "u", "m", "e", "n", "t", "a", "t", "i", "o", "n">>,
    <<"r", "e", "f", "e", "r", "e", "n", "c", "e">>,
    <<"f", "i", "n", "d", " ", "i", "n", "f", "o">>,
    <<"a", "p", "i", " ", "d", "o", "c", "s">> }

\* The alternatives of the needsSearch expression of part_003.
SearchTriggersLegacy ==
  { <<"h", "o", "w", " ", "t", "o">>, <<"w", "h", "a", "t", " ", "i", "s">>,
    <<"f", "i", "n", "d">>, <<"s", "e", "a", "r", "c", "h">>,
    <<"l", "o", "o", "k", " ", "u", "p">>, <<"a", "p", "i">>,
    <<"d", "o", "c", "u", "m", "e", "n", "t", "a", "t", "i", "o", "n">>,
    <<"e", "x", "a", "m", "p", "l", "e">>,
    <<"t", "u", "t", "o", "r", "i", "a", "l">> }

\* /search for|look up|.../i.test(text)
needsSearch(text, b) ==
  \E kw \in (IF b = "part_003" THEN SearchTriggersLegacy ELSE SearchTriggers) :
    includes(LowerSeq(text), kw)

\* `javascript bookmarklet ${text}`
searchQuery(text) == QUERY_PREFIX \o text

\* The text of the prompt where /generate uses it as a string.
PromptText(prompt) == IF prompt = None THEN TEXT_UNDEFINED ELSE prompt[1]

\* The 100 of messages.slice(-100)
MessageLimit == 100

\* A truncation that keeps the oldest turns.
limitedMessages_Head(messages) ==
  IF Len(messages) <= MessageLimit THEN messages
  ELSE SubSeq(messages, 1, MessageLimit)

\* messages.slice(-100)
limitedMessages(messages) ==
  IF Len(messages) <= MessageLimit THEN messages
  ELSE SubSeq(messages, Len(messages) - MessageLimit + 1, Len(messages))

\* [...messages].reverse().find(m => m.role === 'user')?.content || ''
LastUserBefore(messages, i) ==
  LET users == {j \in 1..i : messages[j].role = "user"}
      Latest(j) == messages[j].content
  IN  IF users = {} THEN <<>>
      ELSE Latest(CHOOSE j \in users : \A k \in users : k <= j)

\* A search decision taken on the turns that are sent.
lastUserMessage_Truncated(messages) ==
  LastUserBefore(limitedMessages(messages), Len(limitedMessages(messages)))

lastUserMessage(messages) == LastUserBefore(messages, Len(messages))

\* The parts of the instruction that vary: the search-results block is there
\* when searchContext is a non-empty string.
systemPrompt(context) ==
  [searchBlock |-> IF context = NoContext THEN None ELSE Some(context)]

\* Failure and fallback texts of the handlers.
ERR_NO_MESSAGES == "No messages provided"

ERR_INVALID_RESPONSE == "Invalid API response"

ERR_API == "API Error"

ERR_CHAT == "Failed to process chat"

ERR_GENERATE == "Failed to generate"

SEARCH_EMPTY == "No relevant search results found."

SEARCH_FAILED == "Search failed - proceeding without web context."

NEW_CHAT == <<"N", "e", "w", " ", "C", "h", "a", "t">>

\* new Response(JSON.stringify({ error }), { status })
Failure(endpoint, status, error) ==
  [endpoint |-> endpoint, status |-> status, error |-> error]

\* A handler without a catch block: the exception leaves it and no response
\* of the handler exists.
Caught_Escapes(endpoint) == [endpoint |-> "none"]

\* The response of the catch block of a handler.
Caught(endpoint) ==
  Failure(endpoint, 500, IF endpoint = "/chat" THEN ERR_CHAT ELSE ERR_GENERATE)

\* What a network call can come to: fetch() or the read of the body throws;
\* the body is no JSON; the body is the JSON null; the body is a JSON object.
\* ok is response.ok, error the presence of an error member, content the
\* choices[0].message.content member.
Threw == [kind |-> "threw"]

NonJson(ok) == [kind |-> "unparsable", ok |-> ok]

JsonNull(ok) == [kind |-> "null", ok |-> ok]

JsonBody(ok, error, c) ==
  [kind |-> "json", ok |-> ok, error |-> error, content |-> c]

\* The search provider's body: items absent, empty, or a list of results.
SearchBody(items) == [kind |-> "json", items |-> items]

\* data.items.map((item, i) => `${i + 1}. ${item.title}\n   ${item.snippet}\n
\* URL: ${item.link}`).join('\n\n'), kept as the list of its blocks.
RenderItems(items) ==
  [text |-> "",
   items |-> [i \in 1..Len(items) |->
                <<i, items[i].title, items[i].snippet, items[i].link>>]]

\* A search that reports an empty result list like a failure.
searchGoogle_Conflated(outcome) ==
  IF outcome.kind # "json" \/ outcome.items = None \/ Len(outcome.items[1]) = 0
  THEN [text |-> SEARCH_FAILED, items |-> <<>>]
  ELSE RenderItems(outcome.items[1])

\* searchGoogle: the context text for each outcome of the search call.  The
\* JSON null makes data.items throw inside the try block.
searchGoogle(outcome) ==
  IF outcome.kind # "json" THEN [text |-> SEARCH_FAILED, items |-> <<>>]
  ELSE IF outcome.items = None \/ Len(outcome.items[1]) = 0
  THEN [text |-> SEARCH_EMPTY, items |-> <<>>]
  ELSE RenderItems(outcome.items[1])

\* .replace(/['"]/g, '')
StripQuotes(s) == SelectSeq(s, LAMBDA c : c \notin {"'", "\""})

\* content?.trim().replace(/['"]/g, '') || 'New Chat'
TitleLabel(text) ==
  IF StripQuotes(trim(text)) = <<>> THEN NEW_CHAT ELSE StripQuotes(trim(text))

\* A title step without the default label.
generateChatTitle_NoDefault(outcome) ==
  IF outcome.kind # "json" \/ outcome.content = None THEN <<>>
  ELSE StripQuotes(trim(outcome.content[1]))

\* generateChatTitle: the title for each outcome of the title call.
generateChatTitle(outcome) ==
  IF outcome.kind # "json" \/ outcome.content = None THEN NEW_CHAT
  ELSE TitleLabel(outcome.content[1])

\* The 4 of .slice(0, 4)
TitleTurns == 4

\* A title request built from the most recent turns.
TitleInput_LastFour(messages, reply) ==
  LET turns == Append(messages, [role |-> "assistant", content |-> reply])
  IN  SubSeq(turns, IF Len(turns) < TitleTurns THEN 1
                    ELSE Len(turns) - TitleTurns + 1, Len(turns))

\* messages.map(m => `${m.role}: ${m.content}`).slice(0, 4), for the list
\* [...messages, { role: 'assistant', content: reply }]
TitleInput(messages, reply) ==
  LET turns == Append(messages, [role |-> "assistant", content |-> reply])
  IN  SubSeq(turns, 1, IF Len(turns) < TitleTurns THEN Len(turns) ELSE TitleTurns)

\* A classification that overlooks the status of the response.
Classify_ErrorMemberOnly(outcome, endpoint) ==
  CASE outcome.kind = "threw"      -> Some(Caught(endpoint))
    [] outcome.kind = "unparsable" ->
         Some(Failure(endpoint, 500, ERR_INVALID_RESPONSE))
    [] outcome.kind = "null"       -> Some(Caught(endpoint))
    [] outcome.kind = "json"       ->
         IF outcome.error THEN Some(Failure(endpoint, 500, ERR_API)) ELSE None

\* The classification of the completion's outcome in part_002 and part_001:
\* None when the handler goes on with the reply, or the failure response.
\* fetch() and response.text() throw into the catch block; so does data.error
\* when JSON.parse returned null.
Classify(outcome, endpoint) ==
  CASE outcome.kind = "threw"      -> Some(Caught(endpoint))
    [] outcome.kind = "unparsable" ->
         Some(Failure(endpoint, 500, ERR_INVALID_RESPONSE))
    [] outcome.kind = "null"       -> Some(Caught(endpoint))
    [] outcome.kind = "json"       ->
         IF outcome.error \/ ~outcome.ok
         THEN Some(Failure(endpoint, 500, ERR_API)) ELSE None

\* The same in the /generate of part_003, which reads the body with
\* response.json() and tests neither data.error nor response.ok.
ClassifyLegacy(outcome, endpoint) ==
  IF outcome.kind = "json" THEN None ELSE Some(Caught(endpoint))

\* data.choices?.[0]?.message?.content, '' standing for an absent member
\* (the handlers go on with content?.trim() || '').
ContentOf(outcome) ==
  IF outcome.content = None THEN <<>> ELSE outcome.content[1]

LEGACY_HEAD ==
  <<"(", "f", "u", "n", "c", "t", "i", "o", "n", "(", ")", "{">>

LEGACY_TAIL == <<"}", ")", "(", ")">>

Max(S) == CHOOSE x \in S : \A y \in S : x >= y

\* /javascript:\s*\(function\(\)\{[\s\S]*\}\)\(\);?/i at position i: the
\* greedy [\s\S]* runs to the last })() of the string.
LegacyIifeEnd(s, i) ==
  LET Closing(from) ==
        LET ends == {p \in from..Len(s) : LitAt(s, p, LEGACY_TAIL)}
            Close(p) ==
              IF p + Len(LEGACY_TAIL) <= Len(s) /\ s[p + Len(LEGACY_TAIL)] = ";"
              THEN p + Len(LEGACY_TAIL) + 1 ELSE p + Len(LEGACY_TAIL)
        IN  IF ends = {} THEN 0 ELSE Close(Max(ends))
      Opening(a) ==
        IF LitAtCI(s, a, LEGACY_HEAD) THEN Closing(a + Len(LEGACY_HEAD)) ELSE 0
  IN  IF LitAtCI(s, i, JSPREFIX) THEN Opening(SkipWS(s, i + Len(JSPREFIX))) ELSE 0

\* /javascript:[\s\S]+/i at position i: to the end of the string.
LegacyPrefixEnd(s, i) ==
  IF LitAtCI(s, i, JSPREFIX) /\ i + Len(JSPREFIX) <= Len(s)
  THEN Len(s) + 1 ELSE 0

\* code.match(first) || code.match(second), then code = match[0]
LegacyExtract(code) ==
  LET iife == {i \in 1..Len(code) : LegacyIifeEnd(code, i) # 0}
      rest == {i \in 1..Len(code) : LegacyPrefixEnd(code, i) # 0}
      Whole(i, e) == SubSeq(code, i, e - 1)
      FirstIife(i) == Whole(i, LegacyIifeEnd(code, i))
      FirstRest(i) == Whole(i, LegacyPrefixEnd(code, i))
  IN  IF startsWith(code, JSPREFIX) THEN code
      ELSE IF iife # {} THEN FirstIife(Min(iife))
      ELSE IF rest # {} THEN FirstRest(Min(rest))
      ELSE code

\* The /generate of part_003 from the reply on: no clean-up and no safety
\* check.
GenerateHandlerLegacy(c) ==
  LET Matched(reply) ==
        /\ ~startsWith(reply, JSPREFIX)
        /\ \E i \in 1..Len(reply) :
             LegacyIifeEnd(reply, i) # 0 \/ LegacyPrefixEnd(reply, i) # 0
      Return(code, before) ==
        [code |-> code, step |-> before, extracted |-> <<>>, blockContent |-> <<>>,
         response |-> CodeResponse(code)]
      Handle(reply) ==
        IF SentinelFound(reply)
        THEN [code |-> reply, step |-> "sentinel", extracted |-> <<>>,
              blockContent |-> <<>>,
              response |-> SiteSpecificResponse(MSG_SITE_SPECIFIC)]
        ELSE Return(LegacyExtract(reply),
                    IF Matched(reply) THEN "pattern" ELSE "reply")
  IN  Handle(ReplyOf(c))

\* Inputs of the pipeline.

MaxMessages == 2

Turns ==
  { [role |-> "user", content |-> PROSE_HI],
    [role |-> "user", content |-> TEXT_LOOKUP],
    [role |-> "assistant", content |-> PROSE_HI] }

RECURSIVE Histories(_)
Histories(n) ==
  IF n = 0 THEN {<<>>}
  ELSE LET shorter == Histories(n - 1)
       IN  shorter \cup {Append(h, m) : h \in shorter, m \in Turns}

\* Histories longer than the limit of the completion request by at most
\* MaxOverflow turns.
MaxOverflow == 2

\* The decimal digits of a positive number, as text.
RECURSIVE Digits(_)
Digits(n) ==
  IF n < 10 THEN <<SubSeq(<<"0", "1", "2", "3", "4", "5", "6", "7", "8", "9">>,
                          n + 1, n + 1)[1]>>
  ELSE Append(Digits(n \div 10), Digits(n % 10)[1])

\* A history of n turns that alternates user and assistant, turn i carrying
\* the text of i.
MarkedHistory(n) ==
  [i \in 1..n |-> [role |-> IF i % 2 = 1 THEN "user" ELSE "assistant",
                   content |-> Digits(i)]]

\* A history of n turns whose only user turn is the first one and asks for a
\* search.
BuriedHistory(n) ==
  [i \in 1..n |-> IF i = 1 THEN [role |-> "user", content |-> TEXT_LOOKUP]
                  ELSE [role |-> "assistant", content |-> Digits(i)]]

\* Lengths around the four turns of the title request and around the limit
\* of the completion request.
MarkedLengths ==
  ((TitleTurns - 1)..(TitleTurns + 1))
    \cup ((MessageLimit - 1)..(MessageLimit + MaxOverflow))

\* Bodies of a POST to /chat: no JSON, the JSON null, or an object with or
\* without messages.
ChatRequests ==
  { [body |-> "malformed"], [body |-> "null"] }
    \cup { [body |-> "object", messages |-> m, generateTitle |-> g] :
             m \in {None} \cup {Some(h) : h \in Histories(MaxMessages)}
                     \cup {Some(MarkedHistory(n)) : n \in MarkedLengths}
                     \cup {Some(BuriedHistory(MessageLimit + MaxOverflow))},
             g \in BOOLEAN }

\* Bodies of a POST to /generate.
GenerateRequests ==
  { [body |-> "malformed"], [body |-> "null"] }
    \cup { [body |-> "object", prompt |-> q] :
             q \in {None, Some(PROSE_HI), Some(TEXT_LOOKUP)} }

SearchItem == [title |-> "MDN", snippet |-> "Bookmarklets", link |-> "https://mdn"]

SearchOutcomes ==
  { Threw, NonJson(TRUE), JsonNull(TRUE), SearchBody(None), SearchBody(Some(<<>>)),
    SearchBody(Some(<<SearchItem>>)), SearchBody(Some(<<SearchItem, SearchItem>>)) }

\* Replies of the completion provider.
PipelineReplies ==
  { PROSE_HI, SENTINEL, SNIP_IIFE, SNIP_FETCH_API,
    Fenced(OPEN_JAVASCRIPT, SNIP_ALERT_JS), Fenced(FENCE, SNIP_FETCH_API),
    Fenced(OPEN_JAVASCRIPT, JSPREFIX \o SNIP_FETCH_API),
    FENCE \o FENCE, FENCE \o JSPREFIX \o FENCE }

CompletionOutcomes ==
  { Threw }
    \cup { NonJson(ok) : ok \in BOOLEAN }
    \cup { JsonNull(ok) : ok \in BOOLEAN }
    \cup { JsonBody(ok, error, None) : ok \in BOOLEAN, error \in BOOLEAN }
    \cup { JsonBody(ok, FALSE, Some(c)) : ok \in BOOLEAN, c \in PipelineReplies }

TitleTexts ==
  { <<>>, <<" ">>, <<"'", "\"">>, <<"\"", "H", "i", "\"", "\n">>,
    <<"I", "t", "'", "s">> }

TitleOutcomes ==
  { Threw, NonJson(TRUE), JsonNull(TRUE), JsonBody(FALSE, TRUE, None),
    JsonBody(TRUE, FALSE, None) }
    \cup { JsonBody(TRUE, FALSE, Some(x)) : x \in TitleTexts }

PipelineHandlers ==
  { <<"/chat", "part_002">>, <<"/chat", "part_001">>,
    <<"/generate", "part_002">>, <<"/generate", "part_003">> }

\* A network call is recorded when fetch() is called.  The handler awaits
\* twice for it: fetch() itself (state pending) and, once the response has
\* arrived, the reading of its body (state received).  The call is settled
\* when the handler resumes with the body, or when either await throws.
Issue(cs, kind, payload) ==
  Append(cs, [kind |-> kind, payload |-> payload, state |-> "pending",
              outcome |-> [kind |-> "pending"]])

\* A handler that makes a call again when it threw.
Settle_Retry(cs, outcome) ==
  IF outcome.kind = "threw"
  THEN Append([cs EXCEPT ![Len(cs)].state = "threw",
                         ![Len(cs)].outcome = outcome],
              [cs[Len(cs)] EXCEPT !.state = "pending"])
  ELSE [cs EXCEPT ![Len(cs)].state = "returned", ![Len(cs)].outcome = outcome]

Settle(cs, outcome) ==
  [cs EXCEPT ![Len(cs)].state =
               IF outcome.kind = "threw" THEN "threw" ELSE "returned",
             ![Len(cs)].outcome = outcome]

\* The turns that follow the instruction in the completion request.
UserTurns(endpoint, req) ==
  IF endpoint = "/chat" THEN limitedMessages(req.messages[1])
  ELSE IF req.prompt = None THEN <<[role |-> "user"]>>
  ELSE <<[role |-> "user", content |-> req.prompt[1]]>>

\* messages of the completion request
apiMessages(endpoint, req, context) ==
  <<[role |-> "system", content |-> systemPrompt(context)]>>
    \o UserTurns(endpoint, req)

\* The handler has been called with a POST request for one of its routes and
\* is suspended at await request.json(): no local is assigned and no call is
\* made before the body arrives.
InitPipeline ==
  /\ \E h \in PipelineHandlers : path = h[1] /\ build = h[2]
  /\ request \in (IF path = "/chat" THEN ChatRequests ELSE GenerateRequests)
  /\ pc = "request"
  /\ content = <<>>
  /\ finalCode = <<>>
  /\ step = "none"
  /\ extracted = <<>>
  /\ blockContent = <<>>
  /\ response = NoResponse
  /\ normIn = <<>>
  /\ normOut = <<>>
  /\ calls = <<>>
  /\ searchContext = NoContext
  /\ pending = NoResponse
  /\ SingleRequest

\* return new Response(...)
Respond(r) ==
  /\ response' = r
  /\ pc' = "done"

\* A handler that starts the search and the completion together.
FirstCall_Concurrent(text) ==
  /\ calls' = Issue(IF needsSearch(text, build)
                    THEN Issue(calls, "search", searchQuery(text)) ELSE calls,
                    "completion", apiMessages(path, request, NoContext))
  /\ pc' = "completion"
  /\ UNCHANGED response

\* From needsSearch to the first fetch(): the search call when the text asks
\* for it, the completion call otherwise.
FirstCall(text) ==
  /\ IF needsSearch(text, build)
     THEN /\ calls' = Issue(calls, "search", searchQuery(text))
          /\ pc' = "search"
     ELSE /\ calls' = Issue(calls, "completion",
                            apiMessages(path, request, NoContext))
          /\ pc' = "completion"
  /\ UNCHANGED response

\* A validation that only tests the presence of the field.
NoMessages_AbsentOnly(messages) == messages = None

\* !messages || messages.length === 0
NoMessages(messages) == messages = None \/ Len(messages[1]) = 0

\* POST /chat when request.json() settles, up to its first await of the
\* network: the validation, lastUserMessage and needsSearch.
ChatRequest ==
  /\ pc = "request"
  /\ path = "/chat"
  /\ IF request.body # "object"
     THEN Respond(Caught(path)) /\ UNCHANGED calls
     ELSE IF NoMessages(request.messages)
     THEN Respond(Failure(path, 400, ERR_NO_MESSAGES)) /\ UNCHANGED calls
     ELSE FirstCall(lastUserMessage(request.messages[1]))
  /\ UNCHANGED <<path, build, content, finalCode, step, extracted,
                 blockContent, normIn, runtimeVars,
                 normOut, request, searchContext, pending>>

\* POST /generate when request.json() settles, up to its first await of the
\* network.
GenerateRequest ==
  /\ pc = "request"
  /\ path = "/generate"
  /\ IF request.body # "object"
     THEN Respond(Caught(path)) /\ UNCHANGED calls
     ELSE FirstCall(PromptText(request.prompt))
  /\ UNCHANGED <<path, build, content, finalCode, step, extracted,
                 blockContent, normIn, runtimeVars,
                 normOut, request, searchContext, pending>>

\* fetch() of the outstanding call resolves: the handler resumes, calls
\* response.json() or response.text() and awaits again.  It assigns no local
\* and makes no call.
ResponseReceived ==
  /\ pc \in {"search", "completion", "title"}
  /\ calls[Len(calls)].state = "pending"
  /\ calls' = [calls EXCEPT ![Len(calls)].state = "received"]
  /\ UNCHANGED <<path, build, content, pc, finalCode, step, extracted,
                 blockContent, response, normIn, normOut, request,
                 searchContext, pending, runtimeVars>>

\* searchGoogle returns: the body has been read, or one of its two awaits
\* threw into its catch.  The handler, which awaits searchGoogle, has not
\* resumed yet: searchContext is not assigned and no call is made.
SearchReturned ==
  /\ pc = "search"
  /\ calls[Len(calls)].state \in {"pending", "received"}
  /\ \E outcome \in SearchOutcomes :
       /\ outcome.kind = "threw" \/ calls[Len(calls)].state = "received"
       /\ calls' = Settle(calls, outcome)
  /\ UNCHANGED <<path, build, content, pc, finalCode, step, extracted,
                 blockContent, response, normIn, normOut, request,
                 searchContext, pending, runtimeVars>>

\* The handler resumes with what searchGoogle returned: it assigns
\* searchContext, composes the instruction and calls the completion provider.
SearchDone ==
  /\ pc = "search"
  /\ calls[Len(calls)].state \in {"returned", "threw"}
  /\ searchContext' = searchGoogle(calls[Len(calls)].outcome)
  /\ calls' = Issue(calls, "completion",
                   apiMessages(path, request,
                               searchGoogle(calls[Len(calls)].outcome)))
  /\ pc' = "completion"
  /\ UNCHANGED <<path, build, content, finalCode, step, extracted,
                 blockContent, response,
                 normIn, runtimeVars, normOut, request, pending>>

\* The classification of the completion's outcome by the build.
Classified(outcome) ==
  IF build = "part_003" THEN ClassifyLegacy(outcome, path)
  ELSE Classify(outcome, path)

\* A handler that returns a failure response after the completion call.
FailAfterCompletion(failure) ==
  /\ Respond(failure)
  /\ UNCHANGED <<content, finalCode, step, extracted, blockContent, pending>>

\* The locals of the handler once the reply has been processed.
Processed(o, r) ==
  /\ content' = ContentOf(o)
  /\ finalCode' = r.code
  /\ step' = r.step
  /\ extracted' = r.extracted
  /\ blockContent' = r.blockContent

\* /chat when the completion call settles: classification, extraction and
\* either the response or the title call.
ChatCompletionDone ==
  /\ pc = "completion"
  /\ path = "/chat"
  /\ \E o \in CompletionOutcomes :
       /\ o.kind = "threw" \/ calls[Len(calls)].state = "received"
       /\ IF Classified(o) # None
          THEN /\ calls' = Settle(calls, o)
               /\ FailAfterCompletion(Classified(o)[1])
          ELSE \E r \in {ChatHandler(ContentOf(o), build)} :
                 /\ Processed(o, r)
                 /\ IF request.generateTitle
                    THEN /\ calls' = Issue(Settle(calls, o), "title",
                                           TitleInput(request.messages[1],
                                                      r.response.reply))
                         /\ pending' = r.response
                         /\ pc' = "title"
                         /\ UNCHANGED response
                    ELSE /\ calls' = Settle(calls, o)
                         /\ Respond(r.response)
                         /\ UNCHANGED pending
  /\ UNCHANGED <<path, build, normIn, runtimeVars, normOut, request, searchContext>>

\* /generate when the completion call settles: classification and the rest of
\* the handler.
GenerateCompletionDone ==
  /\ pc = "completion"
  /\ path = "/generate"
  /\ \E o \in CompletionOutcomes :
       /\ o.kind = "threw" \/ calls[Len(calls)].state = "received"
       /\ calls' = Settle(calls, o)
       /\ IF Classified(o) # None
          THEN FailAfterCompletion(Classified(o)[1])
          ELSE \E r \in {IF build = "part_003"
                         THEN GenerateHandlerLegacy(ContentOf(o))
                         ELSE GenerateHandler(ContentOf(o))} :
                 /\ Processed(o, r)
                 /\ Respond(r.response)
                 /\ UNCHANGED pending
  /\ UNCHANGED <<path, build, normIn, runtimeVars, normOut, request, searchContext>>

\* generateChatTitle returns: the body has been read, or one of its two
\* awaits threw into its catch.  The handler, which awaits generateChatTitle,
\* has not resumed yet and has built no response.
TitleReturned ==
  /\ pc = "title"
  /\ calls[Len(calls)].state \in {"pending", "received"}
  /\ \E o \in TitleOutcomes :
       /\ o.kind = "threw" \/ calls[Len(calls)].state = "received"
       /\ calls' = Settle(calls, o)
  /\ UNCHANGED <<path, build, content, pc, finalCode, step, extracted,
                 blockContent, response, normIn, normOut, request,
                 searchContext, pending, runtimeVars>>

\* The handler resumes with the title generateChatTitle returned, and /chat
\* returns reply, hasCode, code and title.
TitleDone ==
  /\ pc = "title"
  /\ calls[Len(calls)].state \in {"returned", "threw"}
  /\ Respond(pending @@
               [title |-> generateChatTitle(calls[Len(calls)].outcome)])
  /\ UNCHANGED <<path, build, content, finalCode, step, extracted,
                 blockContent, normIn, runtimeVars, calls,
                 normOut, request, searchContext, pending>>

NextPipeline ==
  \/ ChatRequest
  \/ GenerateRequest
  \/ ResponseReceived
  \/ SearchReturned
  \/ SearchDone
  \/ ChatCompletionDone
  \/ GenerateCompletionDone
  \/ TitleReturned
  \/ TitleDone

SpecPipeline == InitPipeline /\ [][NextPipeline]_vars

\* Every network call returns or throws, and the runtime resumes a handler
\* whose await has settled.
FairSpecPipeline == SpecPipeline /\ WF_vars(NextPipeline)

-----------------------------------------------------------------------------
(* Two requests in one isolate.  The runtime runs one handler at a time and *)
(* may switch to the other one wherever a handler awaits; the variables of *)
(* the pipeline are the locals of the running handler, other holds the      *)
(* locals of the suspended one.                                             *)

\* The locals of the running handler.
Current ==
  [path |-> path, build |-> build, request |-> request, pc |-> pc,
   content |-> content, finalCode |-> finalCode, step |-> step,
   extracted |-> extracted, blockContent |-> blockContent,
   response |-> response, calls |-> calls,
   searchContext |-> searchContext, pending |-> pending]

\* A handler that has been called and awaits the body of its request.
Arrived(endpoint, b, req) ==
  [path |-> endpoint, build |-> b, request |-> req, pc |-> "request",
   content |-> <<>>, finalCode |-> <<>>, step |-> "none", extracted |-> <<>>,
   blockContent |-> <<>>,
   response |-> NoResponse, calls |-> <<>>, searchContext |-> NoContext,
   pending |-> NoResponse]

\* The requests handled side by side.
ConcurrentArrivals ==
  { Arrived("/chat", "part_002",
            [body |-> "object", generateTitle |-> TRUE,
             messages |-> Some(<<[role |-> "user", content |-> PROSE_HI]>>)]),
    Arrived("/chat", "part_002",
            [body |-> "object", generateTitle |-> FALSE,
             messages |-> Some(<<[role |-> "user", content |-> TEXT_LOOKUP]>>)]),
    Arrived("/generate", "part_002",
            [body |-> "object", prompt |-> Some(TEXT_LOOKUP)]),
    Arrived("/generate", "part_002", [body |-> "malformed"]) }

\* The locals of a handler become the running ones.
Resume(h) ==
  /\ path' = h.path
  /\ build' = h.build
  /\ request' = h.request
  /\ pc' = h.pc
  /\ content' = h.content
  /\ finalCode' = h.finalCode
  /\ step' = h.step
  /\ extracted' = h.extracted
  /\ blockContent' = h.blockContent
  /\ response' = h.response
  /\ calls' = h.calls
  /\ searchContext' = h.searchContext
  /\ pending' = h.pending

\* Both handlers have been called and are suspended at await request.json().
InitConcurrent ==
  /\ \E h \in ConcurrentArrivals :
       /\ path = h.path
       /\ build = h.build
       /\ request = h.request
  /\ pc = "request"
  /\ content = <<>>
  /\ finalCode = <<>>
  /\ step = "none"
  /\ extracted = <<>>
  /\ blockContent = <<>>
  /\ response = NoResponse
  /\ normIn = <<>>
  /\ normOut = <<>>
  /\ calls = <<>>
  /\ searchContext = NoContext
  /\ pending = NoResponse
  /\ other \in ConcurrentArrivals
  /\ cors = CORS_HEADERS

\* A runtime in which the /chat result awaiting its title is kept in a
\* module-level variable, which both handlers use.
Switch_SharedPending ==
  /\ other # NoOther
  /\ other' = [Current EXCEPT !.pending = other.pending]
  /\ Resume([other EXCEPT !.pending = pending])
  /\ UNCHANGED <<normIn, normOut, cors>>

\* The running handler is suspended at its await (or has returned) and the
\* other one runs.
Switch ==
  /\ other # NoOther
  /\ other' = Current
  /\ Resume(other)
  /\ UNCHANGED <<normIn, normOut, cors>>

NextConcurrent ==
  \/ ChatRequest
  \/ GenerateRequest
  \/ ResponseReceived
  \/ SearchReturned
  \/ SearchDone
  \/ ChatCompletionDone
  \/ GenerateCompletionDone
  \/ TitleReturned
  \/ TitleDone
  \/ Switch

SpecConcurrent == InitConcurrent /\ [][NextConcurrent]_vars

-----------------------------------------------------------------------------
(* Properties *)

Done == pc = "done"

OnGenerate == Done /\ path = "/generate"

\* The sentinel stands somewhere in the provider's message content.
ContainsSentinel ==
  \E i \in 1..Len(content) :
    \A k \in 1..Len(SENTINEL) :
      i + k - 1 <= Len(content) /\ content[i + k - 1] = SENTINEL[k]

\* C1: in /generate, a reply that equals or merely contains the sentinel
\* yields siteSpecific = true, an empty code and the fixed explanatory
\* message, whatever else the reply contains.
C1_SentinelRefusal ==
  (OnGenerate /\ ContainsSentinel) =>
    /\ response.siteSpecific = TRUE
    /\ response.code = <<>>
    /\ response.message = MSG_SITE_SPECIFIC

\* A refused reply that is more than the sentinel and holds a fenced block
\* the extractor would have matched.
C1_Witness ==
  /\ OnGenerate
  /\ ContainsSentinel
  /\ ReplyOf(content) # SENTINEL
  /\ codeBlockMatch(ReplyOf(content)).matched
  /\ response.siteSpecific = TRUE
  /\ response.message = MSG_SITE_SPECIFIC

\* C3: without the sentinel, /generate answers with the filter's refusal
\* exactly when the cleaned-up code holds a network-call construct and a
\* sensitive keyword.
C3_ConjunctiveFilter ==
  (OnGenerate /\ ~ContainsSentinel) =>
    ( response.message = MSG_FILTERED
        <=> (HasNetworkCall(finalCode) /\ HasSensitiveKeyword(finalCode)) )

\* Code with a network call and no sensitive keyword, returned unflagged.
C3_Witness ==
  /\ OnGenerate
  /\ ~ContainsSentinel
  /\ HasNetworkCall(finalCode)
  /\ ~HasSensitiveKeyword(finalCode)
  /\ response.siteSpecific = FALSE
  /\ response.code = finalCode

\* C4: flagged code is discarded (empty code, siteSpecific = true, the
\* contact message), and no response with siteSpecific = false carries code
\* that matches both patterns.
C4_FlaggedDiscarded ==
  OnGenerate =>
    /\ ( /\ ~ContainsSentinel
         /\ HasNetworkCall(finalCode)
         /\ HasSensitiveKeyword(finalCode) )
       => ( /\ response.code = <<>>
            /\ response.siteSpecific = TRUE
            /\ response.message = MSG_FILTERED )
    /\ response.siteSpecific = FALSE
       => ~(HasNetworkCall(response.code) /\ HasSensitiveKeyword(response.code))

\* A reply without the sentinel whose code is flagged and discarded.
C4_Witness ==
  /\ OnGenerate
  /\ ~ContainsSentinel
  /\ HasNetworkCall(finalCode)
  /\ HasSensitiveKeyword(finalCode)
  /\ response.code = <<>>
  /\ response.message = MSG_FILTERED

\* No line break, the javascript: prefix, and no two adjacent whitespace
\* characters.
IsCanonical(a) ==
  /\ startsWith(a, JSPREFIX)
  /\ \A i \in 1..Len(a) : a[i] \notin LineBreaks
  /\ \A i \in 1..(Len(a) - 1) : ~(IsWS(a[i]) /\ IsWS(a[i + 1]))

\* C2: every non-empty code returned to the caller (by /generate with
\* siteSpecific = false, or by /chat) is canonical: one line, starting with
\* javascript:, without a run of two whitespace characters.
C2_CanonicalArtifact ==
  ( /\ Done
    /\ response.code # <<>>
    /\ (path = "/chat" \/ response.siteSpecific = FALSE) )
  => IsCanonical(response.code)

TaggedOpeners == {OPEN_JAVASCRIPT}

JsSnippets == {s \in Snippets : startsWith(s, JSPREFIX)}

\* C5: when the reply holds a tagged fenced block whose content starts with
\* javascript: and a stray javascript: token in the prose, before or after
\* the block, the code returned is the block's content.
C5_FencedBeatsStrayToken ==
  \A o \in TaggedOpeners, s \in JsSnippets :
    ( /\ Done
      /\ content \in {STRAY_TOKEN \o Fenced(o, s), Fenced(o, s) \o STRAY_TOKEN} )
    => response.code = Normalize(s)

\* C6: when the reply is a tagged fenced block whose content starts with
\* javascript:, the code returned is the whole normalized content of the
\* block, on /chat and on /generate.
C6_FencedContentTaken ==
  \A o \in TaggedOpeners, s \in JsSnippets :
    (Done /\ content = Fenced(o, s)) => response.code = Normalize(s)

\* The reply has no sentinel, does not start with javascript:, matches no
\* structural pattern and holds no fenced block.
NothingMatches ==
  LET reply == ReplyOf(content)
  IN  /\ ~ContainsSentinel
      /\ ~startsWith(reply, JSPREFIX)
      /\ \A k \in 1..NumPatterns : ~PatternMatch(k, reply).matched
      /\ ~codeBlockMatch(reply).matched

\* C7: when nothing matches, the code returned is empty (and /chat reports
\* hasCode = false).
C7_NoMatchNoArtifact ==
  (Done /\ NothingMatches) =>
    /\ response.code = <<>>
    /\ path = "/chat" => response.hasCode = FALSE

\* C8: /generate returns the bare statement alert('hi') wrapped in the
\* template, with siteSpecific = false.
C8_BareStatementWrapped ==
  (OnGenerate /\ ReplyOf(content) = SNIP_ALERT) =>
    /\ response.code = WRAP_OPEN \o SNIP_ALERT \o WRAP_CLOSE
    /\ response.siteSpecific = FALSE

Count(s, c) == Cardinality({i \in 1..Len(s) : s[i] = c})

\* The template around the collapsed content, piece by piece.
IsWrapOf(a, collapsed) ==
  /\ startsWith(a, JSPREFIX)
  /\ Len(a) = Len(WRAP_OPEN) + Len(collapsed) + Len(WRAP_CLOSE)
  /\ SubSeq(a, 1, Len(WRAP_OPEN)) = WRAP_OPEN
  /\ SubSeq(a, Len(WRAP_OPEN) + 1, Len(WRAP_OPEN) + Len(collapsed)) = collapsed
  /\ SubSeq(a, Len(WRAP_OPEN) + Len(collapsed) + 1, Len(a)) = WRAP_CLOSE
  /\ Count(a, "(") - Count(collapsed, "(") = Count(a, ")") - Count(collapsed, ")")
  /\ Count(a, "{") - Count(collapsed, "{") = Count(a, "}") - Count(collapsed, "}")

\* C9: when the wrapping step is reached (in /generate, and in the /chat of
\* part_001) with a fenced content that does not start with javascript:, the
\* code it produces is exactly javascript:(function(){ + the collapsed
\* content + })(); : it starts with the prefix, holds the content verbatim
\* modulo whitespace collapsing, and the wrapper's own braces and parentheses
\* are balanced.
C9_WrapRoundTrip ==
  (Done /\ step = "wrapped") =>
    /\ ~startsWith(trim(blockContent), JSPREFIX)
    /\ extracted = Normalize(blockContent)
    /\ IsWrapOf(finalCode, Normalize(blockContent))

\* A fenced content with a line break in it, wrapped and returned by /generate.
C9_Witness ==
  /\ OnGenerate
  /\ step = "wrapped"
  /\ \E i \in 1..Len(trim(blockContent)) : trim(blockContent)[i] = "\n"
  /\ \E i \in 1..Len(blockContent) : blockContent[i] = NBSP
  /\ extracted # trim(blockContent)
  /\ \A i \in 1..Len(extracted) : IsWS(extracted[i]) => extracted[i] = " "
  /\ response.code = finalCode
  /\ Len(finalCode) > Len(WRAP_OPEN) + Len(WRAP_CLOSE)

\* C10: normalization is idempotent, and its result has no leading or
\* trailing whitespace, no line break and no two adjacent whitespace
\* characters.
C10_NormalizeIdempotent ==
  pc = "normalized" =>
    /\ Normalize(normOut) = normOut
    /\ normOut # <<>> => (~IsWS(normOut[1]) /\ ~IsWS(normOut[Len(normOut)]))
    /\ \A i \in 1..Len(normOut) : normOut[i] \notin LineBreaks
    /\ \A i \in 1..(Len(normOut) - 1) : ~(IsWS(normOut[i]) /\ IsWS(normOut[i + 1]))

\* An input with a line break inside a whitespace run between two words.
C10_Witness ==
  /\ pc = "normalized"
  /\ \E i \in 1..(Len(normIn) - 1) : normIn[i] = "\r" /\ normIn[i + 1] = "\n"
  /\ Len(normOut) = 3
  /\ normOut[2] = " "

-----------------------------------------------------------------------------
(* Properties of the request pipeline *)

OnChat == path = "/chat"

OnGenerateRoute == path = "/generate"

ObjectBody == request.body = "object"

Kinds(cs) == [i \in 1..Len(cs) |-> cs[i].kind]

\* C11: a /chat request whose messages field is absent or an empty list is
\* answered with the error 'No messages provided' and status 400, and no
\* network call (search, completion, title) is issued on that path.
C11_EmptyMessagesRejected ==
  (OnChat /\ ObjectBody /\ (request.messages = None \/ request.messages = Some(<<>>)))
    => /\ calls = <<>>
       /\ pc \in {"request", "done"}
       /\ Done => response = [endpoint |-> "/chat", status |-> 400,
                              error |-> "No messages provided"]

\* An empty list, with a title asked for, rejected.
C11_Witness ==
  /\ OnChat
  /\ ObjectBody
  /\ request.messages = Some(<<>>)
  /\ request.generateTitle
  /\ Done
  /\ response.status = 400
  /\ calls = <<>>

IsFailure(r) == "error" \in DOMAIN r

\* C12: a /generate request whose prompt field is absent is answered with a
\* failure response, and no network call (search or completion) is issued on
\* that path.
C12_AbsentPromptRejected ==
  (OnGenerateRoute /\ ObjectBody /\ request.prompt = None)
    => /\ calls = <<>>
       /\ Done => IsFailure(response)

\* The completion call of the request, once it has settled.
CompletionSettled ==
  \E i \in 1..Len(calls) : calls[i].kind = "completion"
    /\ calls[i].state \in {"returned", "threw"}

CompletionOutcome ==
  calls[CHOOSE i \in 1..Len(calls) : calls[i].kind = "completion"].outcome

\* The three failure kinds of the completion step, read off the outcome of
\* the call: the body cannot be parsed; the body is parsed and carries an
\* error object or comes with a non-success status; the call threw.
IsInvalidResponse(o) == o.kind = "unparsable"

IsProviderError(o) ==
  \/ o.kind = "json" /\ (o.error \/ ~o.ok)
  \/ o.kind = "null" /\ ~o.ok

IsTransportFailure(o) == o.kind = "threw"

ErrorOf(r) == IF IsFailure(r) THEN r.error ELSE "none"

GenericError == IF OnChat THEN "Failed to process chat" ELSE "Failed to generate"

\* C13: the completion step reports an unparsable body as 'Invalid API
\* response', a parsed body with an error object or a non-success status as
\* 'API Error', and a network-level exception as the generic 'Failed to ...'
\* failure, and never reports a failure of one kind with the indicator of
\* another.
C13_FailuresClassified ==
  (Done /\ CompletionSettled) =>
    /\ IsInvalidResponse(CompletionOutcome)
         <=> ErrorOf(response) = "Invalid API response"
    /\ IsProviderError(CompletionOutcome) <=> ErrorOf(response) = "API Error"
    /\ IsTransportFailure(CompletionOutcome) <=> ErrorOf(response) = GenericError

CompletionFailed(o) ==
  IsInvalidResponse(o) \/ IsProviderError(o) \/ IsTransportFailure(o)

\* C14: in part_002, once the completion call has failed (it threw, the body
\* cannot be parsed, or the body carries an error object or comes with a
\* non-success status) the request is over with a failure response that has
\* no reply and no code; nothing was extracted or audited and no title call
\* is in the call log.
C14_FailedCompletionStops ==
  (build = "part_002" /\ CompletionSettled /\ CompletionFailed(CompletionOutcome))
    => /\ Done
       /\ IsFailure(response)
       /\ response.status = 500
       /\ DOMAIN response \cap {"reply", "code", "hasCode", "title", "siteSpecific"} = {}
       /\ step = "none" /\ extracted = <<>> /\ finalCode = <<>> /\ content = <<>>
       /\ pending = NoResponse
       /\ calls[Len(calls)].kind = "completion"

\* A chat that asked for a title, whose provider answers a usable reply with a
\* non-success status.
C14_Witness ==
  /\ Done
  /\ OnChat
  /\ ObjectBody
  /\ request.generateTitle
  /\ CompletionSettled
  /\ CompletionOutcome.kind = "json"
  /\ ~CompletionOutcome.ok
  /\ CompletionOutcome.content # None
  /\ response.error = "API Error"

\* The search call of the request, once it has settled.
SearchSettled ==
  \E i \in 1..Len(calls) : calls[i].kind = "search"
    /\ calls[i].state \in {"returned", "threw"}

SearchOutcome ==
  calls[CHOOSE i \in 1..Len(calls) : calls[i].kind = "search"].outcome

SearchBroke(o) == o.kind \in {"threw", "unparsable", "null"}

SearchFoundNothing(o) ==
  o.kind = "json" /\ (o.items = None \/ o.items = Some(<<>>))

\* The search-results block of the instruction sent with the completion call.
SentSearchBlock ==
  calls[CHOOSE i \in 1..Len(calls) : calls[i].kind = "completion"].payload[1].content.searchBlock

\* searchGoogle has returned and the handler that awaits it has not resumed.
SearchAwaited == SearchSettled /\ pc = "search"

\* The handler has resumed after await searchGoogle.
SearchResumed == SearchSettled /\ pc # "search"

\* C15: when the search call throws or its body cannot be parsed, the context
\* text is the fixed failure string, no error reaches the caller for it, and
\* the completion call is issued with that text in the instruction; when the
\* result list is absent or empty the context text is the fixed no-results
\* string, which differs from the failure string.  While the handler has not
\* resumed after searchGoogle returned, whatever the search came to, it has
\* answered nothing and the search is its only call; a failure answered
\* later is the completion's.
C15_SearchBestEffort ==
  /\ SearchAwaited =>
       /\ response = NoResponse
       /\ searchContext = NoContext
       /\ Kinds(calls) = <<"search">>
  /\ SearchResumed =>
       /\ SearchBroke(SearchOutcome)
            => searchContext.text = "Search failed - proceeding without web context."
       /\ SearchFoundNothing(SearchOutcome)
            => /\ searchContext.text = "No relevant search results found."
               /\ searchContext.text # SEARCH_FAILED
       /\ Len(calls) >= 2
       /\ calls[2].kind = "completion"
       /\ SentSearchBlock = Some(searchContext)
       /\ ~CompletionSettled => response = NoResponse
       /\ (Done /\ ~CompletionFailed(CompletionOutcome) /\ CompletionOutcome.kind # "null")
            => ~IsFailure(response)

\* A search that threw, followed by a completion that succeeds with code.
C15_Witness ==
  /\ Done
  /\ SearchSettled
  /\ SearchOutcome.kind = "threw"
  /\ searchContext.text = SEARCH_FAILED
  /\ ~IsFailure(response)
  /\ response.code # <<>>

\* The title call of the request, once it has settled.
TitleSettled ==
  \E i \in 1..Len(calls) : calls[i].kind = "title"
    /\ calls[i].state \in {"returned", "threw"}

TitleOutcome ==
  calls[CHOOSE i \in 1..Len(calls) : calls[i].kind = "title"].outcome

\* The title call threw, its body is no JSON object, or the body has no
\* content or an empty one.
TitleFailed(o) ==
  \/ o.kind # "json"
  \/ o.content = None
  \/ trim(o.content[1]) = <<>>

\* C16: whatever the title call comes to, /chat answers with success and with
\* the reply, hasCode and code that the reply alone determines; when the title
\* call fails (exception, unparsable body, error body, missing or empty
\* content) the title is the default label 'New Chat'.
\* While the handler has not resumed after generateChatTitle returned, it
\* has answered nothing; once it has, the response is the one described, and
\* reply, hasCode and code are those of the handler run on the same reply
\* without a title request (ChatHandler).
C16_TitleNeverFails ==
  /\ (TitleSettled /\ pc = "title") => response = NoResponse
  /\ TitleSettled => pc \in {"title", "done"}
  /\ (TitleSettled /\ Done) =>
       /\ ~IsFailure(response)
       /\ response.status = 200
       /\ DOMAIN response =
            {"endpoint", "status", "reply", "hasCode", "code", "title"}
       /\ \A f \in {"reply", "hasCode", "code"} :
            response[f] = ChatHandler(content, build).response[f]
       /\ response.reply = trim(content)
       /\ TitleFailed(TitleOutcome)
            => response.title = <<"N", "e", "w", " ", "C", "h", "a", "t">>

\* A chat whose reply holds a bookmarklet and whose title call threw.
C16_Witness ==
  /\ Done
  /\ TitleSettled
  /\ TitleOutcome.kind = "threw"
  /\ response.hasCode
  /\ response.code # <<>>
  /\ response.title = NEW_CHAT

\* A JSON object of the handler: an error indicator, a /generate result or a
\* /chat result.
IsStructured(r) ==
  /\ r.endpoint = path
  /\ \/ IsFailure(r) /\ r.status \in {400, 500}
     \/ {"code", "siteSpecific"} \subseteq DOMAIN r /\ r.status = 200
     \/ {"reply", "hasCode", "code"} \subseteq DOMAIN r /\ r.status = 200

\* C17: every POST to /chat or /generate ends with exactly one response, a
\* JSON object that is a result or carries an error indicator, whatever the
\* request body and the outcomes of the network calls are: no response exists
\* before the handler is done, the response never changes afterwards, and
\* the handler does get done once each of its network calls has settled.
C17_AlwaysOneStructuredResponse ==
  /\ [](Done => IsStructured(response))
  /\ [](~Done => response = NoResponse)
  /\ [][response # NoResponse => response' = response]_vars
  /\ <>Done

\* Both the search call and the completion call threw.
C17_Witness ==
  /\ Done
  /\ SearchSettled
  /\ SearchOutcome.kind = "threw"
  /\ CompletionOutcome.kind = "threw"
  /\ IsFailure(response)

\* The reply of a successful completion holds the sentinel.
SentinelDeclared == step = "sentinel"

\* The reply passed the sentinel test and the code extracted from it is
\* flagged by the safety check of part_002.
FilterDeclared ==
  /\ build = "part_002"
  /\ step \notin {"none", "sentinel"}
  /\ AuditFlags(finalCode)

\* C18: both refusals of /generate (declared by the sentinel, declared by the
\* safety check) are successful responses: status 200, siteSpecific true, a
\* message for the user, empty code, no error field.  Every failure response
\* has an error field and a failure status and no siteSpecific member, so no
\* response is both a refusal and a failure.
C18_RefusalIsSuccess ==
  (Done /\ OnGenerateRoute) =>
    /\ (SentinelDeclared \/ FilterDeclared)
         => /\ response.status = 200
            /\ DOMAIN response = {"endpoint", "status", "code", "siteSpecific", "message"}
            /\ response.siteSpecific
            /\ response.message \in {MSG_SITE_SPECIFIC, MSG_FILTERED}
            /\ response.message # ""
            /\ response.code = <<>>
    /\ IsFailure(response)
         => /\ response.status # 200
            /\ "siteSpecific" \notin DOMAIN response
            /\ ~SentinelDeclared
    /\ ~IsFailure(response)
         => (response.siteSpecific <=> (SentinelDeclared \/ FilterDeclared))

\* A reply whose code calls fetch on an api path, refused by the safety check.
C18_Witness ==
  /\ Done
  /\ OnGenerateRoute
  /\ FilterDeclared
  /\ response.siteSpecific
  /\ response.message = MSG_FILTERED
  /\ finalCode # <<>>

Outstanding ==
  {i \in 1..Len(calls) : calls[i].state \in {"pending", "received"}}

\* The orders in which one request can have issued its calls.
CallOrders ==
  { <<>>, <<"search">>, <<"completion">>, <<"search", "completion">>,
    <<"completion", "title">>, <<"search", "completion", "title">> }

\* C19: the calls of a request are issued in the order search, completion,
\* title; a call is issued only when the one before it has returned or
\* thrown, so at most one call is outstanding, and the title call is issued
\* only after the completion's reply has been processed into the response.
C19_SequentialCalls ==
  /\ Kinds(calls) \in CallOrders
  /\ Cardinality(Outstanding) <= 1
  /\ Outstanding \subseteq {Len(calls)}
  /\ Outstanding # {} => pc \in {"search", "completion", "title"}
  /\ pc = "completion" => Outstanding = {Len(calls)}
  /\ (pc \in {"search", "title"} /\ Outstanding = {})
       => /\ calls[Len(calls)].kind = pc
          /\ calls[Len(calls)].state \in {"returned", "threw"}
  /\ \A i \in 1..Len(calls) : \A j \in 1..(i - 1) :
       calls[j].state \in {"returned", "threw"}
  /\ pc = "search" => Kinds(calls) = <<"search">>
  /\ pc = "completion" => calls[Len(calls)].kind = "completion"
  /\ pc = "title"
       => /\ calls[Len(calls)].kind = "title"
          /\ ~CompletionFailed(CompletionOutcome)
          /\ pending = ChatHandler(content, build).response
          /\ content = ContentOf(CompletionOutcome)

\* All three calls of one chat request, the last one still outstanding: its
\* response has arrived and its body is awaited.
C19_Witness ==
  /\ pc = "title"
  /\ Kinds(calls) = <<"search", "completion", "title">>
  /\ Outstanding = {3}
  /\ calls[3].state = "received"
  /\ calls[1].state = "threw"
  /\ calls[2].state = "returned"

CallsOfKind(k) == {i \in 1..Len(calls) : calls[i].kind = k}

\* C20: on every path of a request each provider is called at most once (the
\* search provider, the completion provider, the title completion); a call
\* that threw or returned a failure is not made again.
C20_NoRetries ==
  /\ \A k \in {"search", "completion", "title"} : Cardinality(CallsOfKind(k)) <= 1
  /\ \A i \in 1..Len(calls) : calls[i].kind \in {"search", "completion", "title"}
  /\ \A i \in 1..Len(calls) :
       calls[i].state = "threw" => \A j \in 1..Len(calls) :
                                     calls[j].kind = calls[i].kind => j = i
  /\ (CompletionSettled /\ CompletionFailed(CompletionOutcome))
       => Len(calls) \notin Outstanding

\* A request whose search call and completion call both failed, once each.
C20_Witness ==
  /\ Done
  /\ Len(calls) = 2
  /\ calls[1].kind = "search"
  /\ calls[1].state = "threw"
  /\ calls[2].kind = "completion"
  /\ calls[2].outcome.kind = "unparsable"
  /\ response.error = "Invalid API response"

-----------------------------------------------------------------------------
(* Properties of what the handlers send and return *)

\* The turns of the completion request of the state.
SentTurns ==
  calls[CHOOSE i \in 1..Len(calls) : calls[i].kind = "completion"].payload

CompletionIssued == \E i \in 1..Len(calls) : calls[i].kind = "completion"

\* The last k elements of a list, in their order.
LastTurns(h, k) == [i \in 1..k |-> h[Len(h) - k + i]]

\* What the completion request of a /chat holds.
SentIsTailOfHistory ==
  (OnChat /\ CompletionIssued) =>
    /\ SentTurns[1].role = "system"
    /\ Len(SentTurns) = 1 + (IF Len(request.messages[1]) < 100
                             THEN Len(request.messages[1]) ELSE 100)
    /\ Tail(SentTurns) = LastTurns(request.messages[1], Len(SentTurns) - 1)
    /\ \A i \in 2..Len(SentTurns) : SentTurns[i].role # "system"

\* C21: for a /chat history of n turns the completion request is the system
\* turn followed by exactly the last min(n, 100) turns of the history, in
\* the order and with the role and content the caller gave them; the
\* caller's list is never changed by the handler.
C21_HistoryTruncation ==
  /\ []SentIsTailOfHistory
  /\ [][request' = request]_vars

\* A history of 102 turns, of which turns 3 to 102 are sent.
C21_Witness ==
  /\ OnChat
  /\ CompletionIssued
  /\ Len(request.messages[1]) = MessageLimit + 2
  /\ Len(SentTurns) = MessageLimit + 1
  /\ SentTurns[2].content = <<"3">>
  /\ SentTurns[Len(SentTurns)].content = <<"1", "0", "2">>

\* The outcome logged for the call of kind k of handler h.
OutcomeOfKind(h, k) ==
  h.calls[CHOOSE i \in 1..Len(h.calls) : h.calls[i].kind = k].outcome

HasCall(h, k) == \E i \in 1..Len(h.calls) : h.calls[i].kind = k

PayloadOfKind(h, k) ==
  h.calls[CHOOSE i \in 1..Len(h.calls) : h.calls[i].kind = k].payload

\* The text on which handler h decides to search.
RequestText(h) ==
  IF h.path = "/chat" THEN lastUserMessage(h.request.messages[1])
  ELSE PromptText(h.request.prompt)

\* The response of a request handled alone, as a function of its body and of
\* the outcomes of its own network calls.
ResponseAlone(h) ==
  LET Titled(r) ==
        IF h.request.generateTitle
        THEN r @@ [title |-> generateChatTitle(OutcomeOfKind(h, "title"))]
        ELSE r
      Replied(c) ==
        IF h.path = "/chat" THEN Titled(ChatHandler(c, h.build).response)
        ELSE GenerateHandler(c).response
      Completed(o) ==
        IF Classify(o, h.path) # None THEN Classify(o, h.path)[1]
        ELSE Replied(ContentOf(o))
  IN  IF h.request.body # "object" THEN Caught(h.path)
      ELSE IF h.path = "/chat" /\ NoMessages(h.request.messages)
      THEN Failure(h.path, 400, ERR_NO_MESSAGES)
      ELSE Completed(OutcomeOfKind(h, "completion"))

\* What handler h sends depends on its own request and on the outcome of its
\* own search only.
SendsOwnData(h) ==
  /\ HasCall(h, "search") => PayloadOfKind(h, "search") = searchQuery(RequestText(h))
  /\ HasCall(h, "completion") =>
       PayloadOfKind(h, "completion")
         = apiMessages(h.path, h.request,
                       IF HasCall(h, "search")
                       THEN searchGoogle(OutcomeOfKind(h, "search"))
                       ELSE NoContext)
  /\ HasCall(h, "title") =>
       PayloadOfKind(h, "title")
         = TitleInput(h.request.messages[1],
                      ReplyOf(ContentOf(OutcomeOfKind(h, "completion"))))

Independent(h) ==
  /\ h.pc = "done" => h.response = ResponseAlone(h)
  /\ h.pc # "done" => h.response = NoResponse
  /\ SendsOwnData(h)

\* C22: whatever the interleaving of two requests at their awaits, the
\* response of each is the one it produces alone for the same body and the
\* same outcomes of its own network calls, what each sends is built from its
\* own request, and the only module-level object, CORS_HEADERS, is never
\* written.
C22_RequestsIndependent ==
  /\ Independent(Current)
  /\ Independent(other)
  /\ cors = CORS_HEADERS

\* A chat that ran from the arrival of its body to its answer with a title
\* while a /generate in the same isolate stayed suspended at await
\* searchGoogle, its search already returned: the chat was handled inside
\* that await of the other request.
C22_Witness ==
  /\ OnChat
  /\ pc = "done"
  /\ "title" \in DOMAIN response
  /\ response = ResponseAlone(Current)
  /\ other.path = "/generate"
  /\ other.pc = "search"
  /\ Len(other.calls) = 1
  /\ other.calls[1].state = "returned"
  /\ other.searchContext = NoContext
  /\ other.response = NoResponse

OnChatDone == Done /\ path = "/chat"

\* C23: in /chat, a reply that equals or contains the sentinel yields a
\* result marked as a scope refusal with hasCode false and an empty code,
\* whatever fenced block the reply also holds.
C23_ChatSentinelRefusal ==
  (OnChatDone /\ ContainsSentinel) =>
    /\ "siteSpecific" \in DOMAIN response
    /\ ~response.hasCode
    /\ response.code = <<>>

\* C24: no response of part_002 carries a non-empty code that matches both the
\* network-call pattern and the sensitive-keyword pattern, on /chat as on
\* /generate.
C24_EveryArtifactFiltered ==
  (Done /\ build = "part_002" /\ ~IsFailure(response) /\ response.code # <<>>)
    => ~AuditFlags(response.code)

\* The text without the quote characters at its two ends, every other
\* character kept.
RECURSIVE StripSurrounding(_)
StripSurrounding(s) ==
  IF s = <<>> THEN s
  ELSE IF s[1] \in {"'", "\""} THEN StripSurrounding(Tail(s))
  ELSE IF s[Len(s)] \in {"'", "\""} THEN StripSurrounding(SubSeq(s, 1, Len(s) - 1))
  ELSE s

\* C25: the title is the trimmed output of the model with the quote
\* characters around it removed and every other character kept, quotes and
\* apostrophes inside the title included.
C25_SurroundingQuotesOnly ==
  (Done /\ TitleSettled /\ ~TitleFailed(TitleOutcome))
    => response.title = (IF StripSurrounding(trim(TitleOutcome.content[1])) = <<>>
                         THEN NEW_CHAT
                         ELSE StripSurrounding(trim(TitleOutcome.content[1])))

\* The text on which the running handler decides to search: the prompt, or
\* the content of the most recent user turn of the whole history, or the
\* empty text when the history has no user turn.
DecisionText ==
  IF OnChat
  THEN LET h == request.messages[1]
           users == {i \in 1..Len(h) : h[i].role = "user"}
       IN  IF users = {} THEN <<>> ELSE h[Max(users)].content
  ELSE IF request.prompt = None THEN TEXT_UNDEFINED ELSE request.prompt[1]

\* One of the trigger phrases of the build stands somewhere in the text, in
\* any letter case.
TriggerMatches(text) ==
  \E kw \in (IF build = "part_003" THEN SearchTriggersLegacy ELSE SearchTriggers) :
    \E i \in 1..Len(text) : LitAtCI(text, i, kw)

\* C26: a search call is made if and only if the trigger pattern matches the
\* request text (the prompt, or the most recent user turn of the whole
\* history); when it does not match the instruction has no search-results
\* block; when it matches exactly one query is issued, the text prefixed with
\* 'javascript bookmarklet '.
C26_SearchIffTrigger ==
  calls # <<>> =>
    /\ (calls[1].kind = "search") <=> TriggerMatches(DecisionText)
    /\ Cardinality(CallsOfKind("search")) = (IF TriggerMatches(DecisionText) THEN 1 ELSE 0)
    /\ calls[1].kind = "search"
         => calls[1].payload = searchQuery(DecisionText)
    /\ CompletionIssued
         => ((SentTurns[1].content.searchBlock # None) <=> TriggerMatches(DecisionText))

\* A history of 102 turns whose only user turn, the first, asks for a search:
\* the search is made although that turn is not among those sent.
C26_Witness ==
  /\ OnChat
  /\ CompletionIssued
  /\ Len(request.messages[1]) > MessageLimit
  /\ calls[1].kind = "search"
  /\ calls[1].payload = QUERY_PREFIX \o TEXT_LOOKUP
  /\ \A i \in 2..Len(SentTurns) : SentTurns[i].role = "assistant"

\* The patterns of the array that match somewhere in the text.
MatchingPatterns(s) == {k \in 1..NumPatterns : PatternMatch(k, s).matched}

\* What the first matching pattern, in the order of the array, takes from
\* the text.
FirstInOrder(s) == GroupOrWhole(PatternMatch(Min(MatchingPatterns(s)), s))

\* The patterns are consulted: /generate got a reply without the sentinel
\* that does not start with javascript: and that some pattern matches.
PatternsDecide ==
  /\ OnGenerate
  /\ ~ContainsSentinel
  /\ ~startsWith(trim(content), JSPREFIX)
  /\ MatchingPatterns(trim(content)) # {}

\* C27: in /generate, for a reply that does not start with javascript:, the
\* patterns are tried in the order function-IIFE, arrow-IIFE, void call, bare
\* token, backtick-, double-quote- and single-quote-delimited, and the code
\* is what the first pattern of that order that matches takes from the
\* reply, wherever in the reply the patterns after it would match (when that
\* text starts with JavaScript: in another letter case, the fenced-block
\* step is applied to it and to nothing else).
C27_FirstPatternInOrderWins ==
  PatternsDecide =>
    /\ startsWith(FirstInOrder(trim(content)), JSPREFIX)
         => /\ finalCode = Normalize(FirstInOrder(trim(content)))
            /\ response.code \in {<<>>, finalCode}
    /\ ~startsWith(FirstInOrder(trim(content)), JSPREFIX)
         => finalCode = Normalize(CodeBlockFallback(FirstInOrder(trim(content)),
                                                    "pattern").code)

\* A reply that opens with a backtick-delimited token and holds a function
\* IIFE after it: patterns 1, 4 and 5 match, pattern 5 leftmost, and the IIFE
\* is returned.
C27_Witness ==
  /\ PatternsDecide
  /\ content = INLINE_BACKTICK \o SNIP_IIFE
  /\ {1, 4, 5} \subseteq MatchingPatterns(content)
  /\ response.code = SNIP_IIFE

\* The /chat reply holds a fenced block and none whose content starts with
\* javascript:.
OnlyPlainBlocks ==
  /\ OnChatDone
  /\ codeBlockMatch(trim(content)).matched
  /\ ~codeMatch(trim(content)).matched

\* C28: when a /chat reply holds a fenced block but none whose content starts
\* with javascript:, the content of the first fenced block is collapsed to
\* one line and wrapped as javascript:(function(){ + content + })(); and the
\* response has hasCode true with that code.
C28_ChatWrapsPlainBlock ==
  OnlyPlainBlocks =>
    /\ response.hasCode
    /\ response.code
         = WRAP_OPEN \o Normalize(codeBlockMatch(trim(content)).group) \o WRAP_CLOSE

\* C29: in every successful /chat response hasCode is true if and only if
\* the code is not empty, whatever the reply is, a reply with an empty fenced
\* block or with a fenced block that holds only the prefix included.
C29_HasCodeIffCode ==
  (OnChatDone /\ ~IsFailure(response))
    => (response.hasCode <=> response.code # <<>>)

\* A fenced block that holds the prefix and nothing else: the prefix is the
\* code.
C29_Witness ==
  /\ OnChatDone
  /\ build = "part_002"
  /\ content = FENCE \o JSPREFIX \o FENCE
  /\ response.hasCode
  /\ response.code = JSPREFIX

\* The text of the title request: the turns it is built from.
TitleRequested == \E i \in 1..Len(calls) : calls[i].kind = "title"

SentTitleTurns ==
  calls[CHOOSE i \in 1..Len(calls) : calls[i].kind = "title"].payload

NewReplyTurn == [role |-> "assistant", content |-> trim(content)]

\* C30: the title request is built from at most the first four turns of the
\* caller's history followed by the new assistant reply, whatever the
\* truncation of the completion request to the last 100 turns: for a history
\* of four or more turns it is exactly the first four turns of the history,
\* without the new reply; for a shorter history it is the whole history and
\* then the reply.
C30_TitleFromFirstFour ==
  TitleRequested =>
    /\ Len(SentTitleTurns) <= 4
    /\ Len(request.messages[1]) >= 4
         => SentTitleTurns = SubSeq(request.messages[1], 1, 4)
    /\ Len(request.messages[1]) < 4
         => SentTitleTurns = Append(request.messages[1], NewReplyTurn)

\* A history of 102 turns: the title is asked for turns 1 to 4 while the
\* completion got turns 3 to 102.
C30_Witness ==
  /\ TitleRequested
  /\ Len(request.messages[1]) = MessageLimit + 2
  /\ SentTitleTurns[1].content = <<"1">>
  /\ SentTitleTurns[Len(SentTitleTurns)].content = <<"4">>
  /\ SentTurns[2].content = <<"3">>

====
